---- MODULE Spec2Model ----
(***************************************************************************)
(* git-hooks-node: the pre-commit conflict check, the pre-push validators  *)
(* (src/hooks/pre-push.js and its older copies) and the installer          *)
(* (src/bin/install.js), each modelled as one process run from start to    *)
(* exit.  Text the code matches with regular expressions (branch names,    *)
(* versions, source lines) is a sequence of one-character strings.         *)
(***************************************************************************)
EXTENDS Integers, Sequences, FiniteSets, TLC

VARIABLES
    script,     \* which entry point this process runs
    pc,         \* position of the run
    exitCode,   \* -1 while the process runs, then its exit code
    out,        \* console messages, in order
    tracked,    \* pre-commit: tracked files, file name -> sequence of lines
    results,    \* pre-commit: the module-level variable `results`
    pkg,        \* package.json of the project
    env,        \* npm_package_* environment of the run
    options,    \* flags variant: the parsed command line
    data,       \* pre-push: branch data read from git
    pending,    \* pre-push: shell commands launched and not yet called back
    ran,        \* pre-push: shell commands launched, in order
    reason,     \* the reason a promise was rejected with, "" when none was
    mergeCodes, \* auto-merge: the exit codes of the merge commands that ran, in order
    fixed,      \* repeated runs: <<name>> when every run finds the same branch, else <<>>
    runs,       \* repeated runs: the runs started so far
    failed      \* repeated runs: the earlier runs that ended in a validation failure

vars == <<script, pc, exitCode, out, tracked, results, pkg, env, options, data, pending, ran,
          reason, mergeCodes, fixed, runs, failed>>

\* what a single run of a script leaves alone
session == <<fixed, runs, failed>>

-----------------------------------------------------------------------------
(* Bounds of the model *)

MaxLines == 2    \* lines of a tracked file
MaxDigits == 2   \* digits of one component of a version
MaxScripts == 2  \* scripts a manifest configures before the install
MaxRuns == 4     \* runs of the pre-push hook followed in one session

-----------------------------------------------------------------------------
(* Characters and strings *)

Rep(c, n) == [i \in 1..n |-> c]

IsDigit(c) == c \in {"0", "1", "2", "3", "4", "5", "6", "7", "8", "9"}

IsSpace(c) == c \in {" ", "\t", "\n"}

IsDigits(s) == Len(s) > 0 /\ \A i \in 1..Len(s) : IsDigit(s[i])

StartsWith(s, p) == Len(s) >= Len(p) /\ SubSeq(s, 1, Len(p)) = p

Min(S) == CHOOSE x \in S : \A y \in S : x <= y

\* String.prototype.trim: whitespace removed at both ends
RECURSIVE TrimLeft(_)
TrimLeft(s) == IF s # <<>> /\ IsSpace(Head(s)) THEN TrimLeft(Tail(s)) ELSE s

RECURSIVE TrimRight(_)
TrimRight(s) ==
    IF s # <<>> /\ IsSpace(s[Len(s)]) THEN TrimRight(SubSeq(s, 1, Len(s) - 1)) ELSE s

Trim(s) == TrimRight(TrimLeft(s))

\* exitCode while the process is running
Running == 0 - 1

\* a shell command's exit status; a promise or variable that holds null is <<>>
ExitCodes == {0, 1}

Exit(code) == pc' = "exited" /\ exitCode' = code

Exited == pc = "exited"

Printed(m) == \E i \in 1..Len(out) : out[i] = m

-----------------------------------------------------------------------------
(* The pre-commit conflict check: src/unnamed/part_000, lines 1-55 and 57-89 *)

Files == {"a.js", "b.js"}

ConflictStart == Rep("<", 7) \o <<" ", "H">>
ConflictSep == Rep("=", 7)
ConflictEnd == Rep(">", 7) \o <<" ", "b">>
CommentedStart == <<"/", "/", " ">> \o ConflictStart
LongSep == Rep("=", 8)

Lines == {ConflictStart, ConflictSep, ConflictEnd, CommentedStart, LongSep}

FileTexts == UNION {[1..n -> Lines] : n \in 0..MaxLines}

\* "^<<<<<<<\\s|^=======$|^>>>>>>>\\s", matched by git grep -P against one line
isConflictRegular(line) ==
    \/ StartsWith(line, Rep("<", 7)) /\ Len(line) >= 8 /\ IsSpace(line[8])
    \/ line = Rep("=", 7)
    \/ StartsWith(line, Rep(">", 7)) /\ Len(line) >= 8 /\ IsSpace(line[8])

\* the output of git grep -n: one entry for every matching line of a tracked file
gitGrep(files) ==
    UNION {{<<f, n>> : n \in {m \in 1..Len(files[f]) : isConflictRegular(files[f][m])}} :
           f \in DOMAIN files}

\* git grep exits 0 when a line matched and 1 when none did; execSync throws on
\* a non-zero status
execSyncThrows(files) == gitGrep(files) = {}

\* `let results = execSync(...)` inside the try block declares a new
\* block-scoped variable: the module-level `results` keeps its value
resultsAfterTry(outer, stdout) == outer

\* the catch branch exiting with the failure code
PreCommit_catchExit_failure == 0 + 1

\* the catch branch: console.log and process.exit(0)
PreCommit_catchExit == 0

PreCommit_try ==
    /\ script = "precommit" /\ pc = "start"
    /\ IF execSyncThrows(tracked)
         THEN /\ out' = Append(out, "no conflict, waiting for commit")
              /\ Exit(PreCommit_catchExit)
              /\ UNCHANGED results
         ELSE /\ results' = resultsAfterTry(results, <<gitGrep(tracked)>>)
              /\ pc' = "check"
              /\ UNCHANGED <<out, exitCode>>
    /\ UNCHANGED <<script, tracked, pkg, env, options, data, pending, ran, reason>>
    /\ UNCHANGED <<mergeCodes, session>>

PreCommit_check ==
    /\ script = "precommit" /\ pc = "check"
    /\ IF results # <<>>
         THEN /\ out' = out \o <<"conflict found, conflicting files:", "results">>
              /\ Exit(1)
         ELSE /\ Exit(0)
              /\ UNCHANGED out
    /\ UNCHANGED <<script, tracked, results, pkg, env, options, data, pending, ran, reason>>
    /\ UNCHANGED <<mergeCodes, session>>

-----------------------------------------------------------------------------
(* Branch names, versions and the project manifest *)

DigitRun == <<"1", "0", "5", "7">>

\* the numbers a version is made of: "2", "1", "10", ...
Nums == {<<"2">>} \cup {SubSeq(DigitRun, 1, k) : k \in 1..MaxDigits}

Dotted(a, b, c) == a \o <<".">> \o b \o <<".">> \o c

Master == <<"m", "a", "s", "t", "e", "r">>

\* what git reports as the current branch
BranchNames ==
    {<<p>> \o Dotted(a, b, c) : p \in {"v", "d", "x"}, a \in Nums, b \in Nums, c \in Nums}
    \cup {Master, <<>>, <<"d", "e", "v">>, Master \o <<"2">>,
          <<"v", "1", ".", "2">>, <<"v", "1", ".", "2", ".", "1", "x">>,
          <<"v", "v", "1", ".", "2", ".", "1">>, <<"2", ".", "1", ".", "1">>}

\* the standard output of the git command: the name and a line end
Stdouts == {n \o <<"\n">> : n \in BranchNames}

PkgVersions == {Dotted(<<"1">>, <<"2">>, <<"1">>), Dotted(<<"1">>, <<"2">>, <<"1", "0">>)}

\* path.basename(path.resolve(__dirname, '../'))
projectName == "proj"

PkgNames == {projectName, "other"}

UserCommand == <<"npm test">>

\* the manifests of a project that uses the pre-push hook
PrePushPkgs ==
    {[exists |-> TRUE, name |-> n, version |-> v, hasScripts |-> TRUE,
      scripts |-> [k \in ks |-> UserCommand]] :
        n \in PkgNames, v \in PkgVersions, ks \in SUBSET {"prepushtag", "prepushbranch"}}

NoPkg == [exists |-> FALSE, name |-> "", version |-> <<>>, hasScripts |-> FALSE,
          scripts |-> <<>>]

\* npm exports the fields of package.json as npm_package_* when it starts a script
ScriptOf(p, k) == IF p.hasScripts /\ k \in DOMAIN p.scripts THEN p.scripts[k] ELSE <<>>

NpmEnv(p) ==
    [npm_package_name |-> p.name,
     npm_package_version |-> p.version,
     npm_package_scripts_prepushtag |-> ScriptOf(p, "prepushtag"),
     npm_package_scripts_prepushbranch |-> ScriptOf(p, "prepushbranch")]

NoOptions == [checkpkgname |-> FALSE, checkpkgversion |-> FALSE,
              ontagpushexec |-> <<>>, onbranchpushexec |-> <<>>]

-----------------------------------------------------------------------------
(* The regular expressions of the pre-push validators *)

\* \d+\.\d+\.\d+ matched against the whole of s
IsFullVersion(s) ==
    \E i, j \in 1..Len(s) :
        /\ i < j /\ s[i] = "." /\ s[j] = "."
        /\ IsDigits(SubSeq(s, 1, i - 1))
        /\ IsDigits(SubSeq(s, i + 1, j - 1))
        /\ IsDigits(SubSeq(s, j + 1, Len(s)))

\* /^[v]{1}\d+\.\d+\.\d+$/
regTag(s) == s # <<>> /\ Head(s) = "v" /\ IsFullVersion(Tail(s))

\* /^[d]{1}\d+\.\d+\.\d+$/
regBranch(s) == s # <<>> /\ Head(s) = "d" /\ IsFullVersion(Tail(s))

\* /^master$/
regMaster(s) == s = Master

\* the ends e of a match of \d+\.\d+\.\d that starts at p: the last \d takes one digit
regVersionEnds(s, p) ==
    {e \in p..Len(s) :
        \E i, j \in p..e :
            /\ i < j /\ s[i] = "." /\ s[j] = "." /\ e = j + 1
            /\ IsDigits(SubSeq(s, p, i - 1))
            /\ IsDigits(SubSeq(s, i + 1, j - 1))
            /\ IsDigit(s[e])}

\* branchName.match(/\d+\.\d+\.\d/): the leftmost match, {} when there is none
regVersion(s) ==
    LET starts == {p \in 1..Len(s) : regVersionEnds(s, p) # {}}
    IN  IF starts = {} THEN {}
        ELSE {SubSeq(s, Min(starts), CHOOSE e \in regVersionEnds(s, Min(starts)) : TRUE)}

Cmd(c, a) == [cmd |-> c, arg |-> a]

-----------------------------------------------------------------------------
(* The pre-push validator with master support: src/hooks/pre-push.js, 1-205 *)

\* the callback of exec in getBranchData, on success
PrePush_getBranchData(stdout) ==
    LET branchName == Trim(stdout)
        branchVersion == IF regVersion(branchName) # {}
                         THEN CHOOSE m \in regVersion(branchName) : TRUE
                         ELSE <<>>
    IN  [isTag |-> regTag(branchName),
         isBranch |-> regBranch(branchName),
         isMaster |-> regMaster(branchName),
         branchName |-> branchName,
         branchVersion |-> branchVersion]

\* checkPkgName with the comparison turned round
PrePush_nameDiffers_inverted(e) == e.npm_package_name = projectName

\* checkPkgName: the condition under which the name is rewritten
PrePush_nameDiffers(e) == e.npm_package_name # projectName

\* checkBranchName accepting every name that holds a version
PrePush_branchNameIllegal_anyVersion(d) == d.branchVersion = <<>> /\ ~d.isMaster

\* checkBranchName: the condition under which the process exits
PrePush_branchNameIllegal(d) == ~d.isTag /\ ~d.isBranch /\ ~d.isMaster

\* checkPkgVersion without the comparison of the versions
PrePush_versionDiffers_always(e, d) == ~d.isMaster

\* checkPkgVersion: the condition under which the version is rewritten
PrePush_versionDiffers(e, d) == ~d.isMaster /\ e.npm_package_version # d.branchVersion

\* checkPkgVersion writing the branch name, prefix included
PrePush_newVersion_branchName(d) == d.branchName

\* checkPkgVersion: the value written to the version field
PrePush_newVersion(d) == d.branchVersion

\* prePushTag without the test of data.isTag
PrePush_runsTag_anyBranch(e, d) == e.npm_package_scripts_prepushtag # <<>>

\* prePushTag and prePushBranch: the conditions under which the command is launched
PrePush_runsTag(e, d) == e.npm_package_scripts_prepushtag # <<>> /\ d.isTag

PrePush_runsBranch(e, d) == e.npm_package_scripts_prepushbranch # <<>> /\ d.isBranch

\* autoMergeMaster: the commands joined with ' && '
PrePush_mergeCommands(d) ==
    <<Cmd("git checkout master", <<>>),
      Cmd("git pull origin master", <<>>),
      Cmd("git merge ", d.branchName),
      Cmd("git push origin master", <<>>),
      Cmd("git push origin --delete d", d.branchVersion)>>

\* init up to the launch of exec: checkPkgName, then getBranchData
PrePush_init ==
    /\ script = "prepush" /\ pc = "start"
    /\ IF PrePush_nameDiffers(env)
         THEN /\ pkg' = [pkg EXCEPT !.name = projectName]
              /\ out' = Append(out, "npm_package_name rewritten")
              /\ Exit(1)
         ELSE /\ pc' = "exec"
              /\ UNCHANGED <<pkg, out, exitCode>>
    /\ UNCHANGED <<script, tracked, results, env, options, data, pending, ran, reason>>
    /\ UNCHANGED <<mergeCodes, session>>

\* the callback of exec("git status | head -1 | awk '{print $NF}'"); in a
\* session that stays on one branch, git reports that branch
PrePush_execCallback ==
    /\ script = "prepush" /\ pc = "exec"
    /\ \/ pc' = "catch" /\ reason' = "exec error" /\ UNCHANGED data
       \/ \E stdout \in Stdouts :
            /\ IF fixed = <<>> THEN TRUE ELSE Trim(stdout) = fixed[1]
            /\ data' = <<PrePush_getBranchData(stdout)>>
            /\ pc' = "then"
            /\ UNCHANGED reason
    /\ UNCHANGED <<script, exitCode, out, tracked, results, pkg, env, options, pending, ran>>
    /\ UNCHANGED <<mergeCodes, session>>

\* the handler given to then: checkBranchName, checkPkgVersion, prePushTag,
\* prePushBranch
PrePush_then ==
    /\ script = "prepush" /\ pc = "then"
    /\ LET d == data[1] IN
        IF PrePush_branchNameIllegal(d)
        THEN /\ out' = Append(out, "branch name illegal")
             /\ Exit(1)
             /\ UNCHANGED <<pkg, pending, ran>>
        ELSE IF PrePush_versionDiffers(env, d)
        THEN /\ pkg' = [pkg EXCEPT !.version = PrePush_newVersion(d)]
             /\ out' = Append(out, "npm_package_version rewritten")
             /\ Exit(1)
             /\ UNCHANGED <<pending, ran>>
        ELSE /\ pending' = (IF PrePush_runsTag(env, d) THEN {"prepushtag"} ELSE {})
                            \cup (IF PrePush_runsBranch(env, d) THEN {"prepushbranch"} ELSE {})
             /\ ran' = ran
                   \o (IF PrePush_runsTag(env, d)
                       THEN <<Cmd("npm run prepushtag", <<>>)>> ELSE <<>>)
                   \o (IF PrePush_runsBranch(env, d)
                       THEN <<Cmd("npm run prepushbranch", <<>>)>> ELSE <<>>)
             /\ pc' = "idle"
             /\ UNCHANGED <<pkg, out, exitCode>>
    /\ UNCHANGED <<script, tracked, results, env, options, data, reason>>
    /\ UNCHANGED <<mergeCodes, session>>

\* the handler given to catch
PrePush_catch ==
    /\ script = "prepush" /\ pc = "catch"
    /\ out' = Append(out, reason)
    /\ pc' = "idle"
    /\ UNCHANGED <<script, exitCode, tracked, results, pkg, env, options, data, pending, ran, reason>>
    /\ UNCHANGED <<mergeCodes, session>>

\* the hook is started again by the next git push, as a new process: npm
\* exports the manifest as it is now, and the run that ended is counted as
\* failed when it exited with code 1
PrePush_rerun ==
    /\ script = "prepush" /\ Exited
    /\ fixed # <<>> /\ runs < MaxRuns
    /\ pc' = "start" /\ exitCode' = Running /\ out' = <<>>
    /\ data' = <<>> /\ pending' = {} /\ ran' = <<>> /\ reason' = "" /\ mergeCodes' = <<>>
    /\ env' = NpmEnv(pkg)
    /\ runs' = runs + 1
    /\ failed' = failed + (IF exitCode = 1 THEN 1 ELSE 0)
    /\ UNCHANGED <<script, tracked, results, pkg, options, fixed>>

\* the callback of shell.exec('npm run prepushtag'); on success autoMergeMaster
\* launches the merge commands
PrePush_prePushTagCallback ==
    /\ script = "prepush" /\ pc = "idle" /\ "prepushtag" \in pending
    /\ \E code \in ExitCodes :
        IF code = 0
        THEN /\ out' = out \o <<"npm run prepushtag success", "merge into master starts">>
             /\ pending' = (pending \ {"prepushtag"}) \cup {"automerge"}
        ELSE /\ out' = Append(out, "npm run prepushtag failure")
             /\ pending' = pending \ {"prepushtag"}
    /\ UNCHANGED <<script, pc, exitCode, tracked, results, pkg, env, options, data, ran, reason>>
    /\ UNCHANGED <<mergeCodes, session>>

\* the callback of shell.exec('npm run prepushbranch')
PrePush_prePushBranchCallback ==
    /\ script = "prepush" /\ pc = "idle" /\ "prepushbranch" \in pending
    /\ \E code \in ExitCodes :
        out' = Append(out, IF code = 0 THEN "npm run prepushbranch success"
                                       ELSE "npm run prepushbranch failure")
    /\ pending' = pending \ {"prepushbranch"}
    /\ UNCHANGED <<script, pc, exitCode, tracked, results, pkg, env, options, data, ran, reason>>
    /\ UNCHANGED <<mergeCodes, session>>

\* the commands joined with ';': the shell runs every one of them
PrePush_shellRuns_sequential(codes, i) == TRUE

\* the shell runs command i of 'c1 && c2 && ...' when every command before
\* it exited with 0; codes are the exit codes the commands would end with
PrePush_shellRuns(codes, i) == \A j \in 1..(i - 1) : codes[j] = 0

\* the callback of the merge commands: the shell runs them in order, each as
\* far as `&&` lets it, and exits with the code of the last one it ran
PrePush_autoMergeCallback ==
    /\ script = "prepush" /\ pc = "idle" /\ "automerge" \in pending
    /\ LET commands == PrePush_mergeCommands(data[1]) IN
        \E codes \in [1..Len(commands) -> ExitCodes] :
            LET steps == {i \in 1..Len(commands) : PrePush_shellRuns(codes, i)}
                code == IF \A i \in steps : codes[i] = 0 THEN 0 ELSE 1
            IN  /\ ran' = ran \o [i \in 1..Cardinality(steps) |-> commands[i]]
                /\ mergeCodes' = [i \in 1..Cardinality(steps) |-> codes[i]]
                /\ out' = Append(out, IF code = 0
                                      THEN "merge into master succeeded"
                                      ELSE "merge into master failed")
    /\ pending' = pending \ {"automerge"}
    /\ UNCHANGED <<script, pc, exitCode, tracked, results, pkg, env, options, data, reason>>
    /\ UNCHANGED session

-----------------------------------------------------------------------------
(* The older pre-push validator: src/unnamed/part_000, 91-259 *)

\* checkBranchName: the value the promise chain goes on with
Part000_checkBranchName(branchName) ==
    [isTag |-> regTag(branchName),
     isBranch |-> regBranch(branchName),
     isMaster |-> FALSE,
     branchName |-> branchName,
     branchVersion |-> CHOOSE m \in regVersion(branchName) : TRUE]

\* checkBranchName: the condition under which the process exits
Part000_branchNameIllegal(branchName) == ~(regTag(branchName) \/ regBranch(branchName))

\* the exit code of checkPkgName and of checkPkgVersion after a rewrite
Part000_rewriteExit == 0

\* init up to the launch of exec: checkPkgName, then getBranchName
Part000_init ==
    /\ script = "part000" /\ pc = "start"
    /\ IF env.npm_package_name # projectName
         THEN /\ pkg' = [pkg EXCEPT !.name = projectName]
              /\ out' = Append(out, "npm_package_name rewritten")
              /\ Exit(Part000_rewriteExit)
         ELSE /\ pc' = "exec"
              /\ UNCHANGED <<pkg, out, exitCode>>
    /\ UNCHANGED <<script, tracked, results, env, options, data, pending, ran, reason>>
    /\ UNCHANGED <<mergeCodes, session>>

\* the callback of exec in getBranchName; data holds the value the promise is
\* resolved with until checkBranchName replaces it
Part000_execCallback ==
    /\ script = "part000" /\ pc = "exec"
    /\ \/ pc' = "catch" /\ reason' = "exec error" /\ UNCHANGED data
       \/ \E stdout \in Stdouts :
            /\ data' = <<[isTag |-> FALSE, isBranch |-> FALSE, isMaster |-> FALSE,
                          branchName |-> Trim(stdout), branchVersion |-> <<>>]>>
            /\ pc' = "checkBranchName"
            /\ UNCHANGED reason
    /\ UNCHANGED <<script, exitCode, out, tracked, results, pkg, env, options, pending, ran>>
    /\ UNCHANGED <<mergeCodes, session>>

\* then(this.checkBranchName)
Part000_checkBranchNameStep ==
    /\ script = "part000" /\ pc = "checkBranchName"
    /\ IF Part000_branchNameIllegal(data[1].branchName)
         THEN /\ out' = Append(out, "branch name illegal")
              /\ Exit(1)
              /\ UNCHANGED data
         ELSE /\ data' = <<Part000_checkBranchName(data[1].branchName)>>
              /\ pc' = "then"
              /\ UNCHANGED <<out, exitCode>>
    /\ UNCHANGED <<script, tracked, results, pkg, env, options, pending, ran, reason>>
    /\ UNCHANGED <<mergeCodes, session>>

\* the handler given to then: checkPkgVersion, prePushTag, prePushBranch
Part000_then ==
    /\ script = "part000" /\ pc = "then"
    /\ LET d == data[1]
           runsTag == env.npm_package_scripts_prepushtag # <<>> /\ d.isTag
           runsBranch == env.npm_package_scripts_prepushbranch # <<>> /\ d.isBranch
       IN
        IF env.npm_package_version # d.branchVersion
        THEN /\ pkg' = [pkg EXCEPT !.version = d.branchVersion]
             /\ out' = Append(out, "npm_package_version rewritten")
             /\ Exit(Part000_rewriteExit)
             /\ UNCHANGED <<pending, ran>>
        ELSE /\ pending' = (IF runsTag THEN {"prepushtag"} ELSE {})
                            \cup (IF runsBranch THEN {"prepushbranch"} ELSE {})
             /\ ran' = ran
                   \o (IF runsTag THEN <<Cmd("npm run prepushtag", <<>>)>> ELSE <<>>)
                   \o (IF runsBranch THEN <<Cmd("npm run prepushbranch", <<>>)>> ELSE <<>>)
             /\ pc' = "idle"
             /\ UNCHANGED <<pkg, out, exitCode>>
    /\ UNCHANGED <<script, tracked, results, env, options, data, reason>>
    /\ UNCHANGED <<mergeCodes, session>>

\* the handler given to catch
Part000_catch ==
    /\ script = "part000" /\ pc = "catch"
    /\ out' = Append(out, reason)
    /\ pc' = "idle"
    /\ UNCHANGED <<script, exitCode, tracked, results, pkg, env, options, data, pending, ran, reason>>
    /\ UNCHANGED <<mergeCodes, session>>

\* the callbacks of shell.exec('npm run prepushtag') and of
\* shell.exec('npm run prepushbranch')
Part000_prePushTagCallback ==
    /\ script = "part000" /\ pc = "idle" /\ "prepushtag" \in pending
    /\ \E code \in ExitCodes :
        out' = Append(out, IF code = 0 THEN "npm run prepushtag success"
                                       ELSE "npm run prepushtag failure")
    /\ pending' = pending \ {"prepushtag"}
    /\ UNCHANGED <<script, pc, exitCode, tracked, results, pkg, env, options, data, ran, reason>>
    /\ UNCHANGED <<mergeCodes, session>>

Part000_prePushBranchCallback ==
    /\ script = "part000" /\ pc = "idle" /\ "prepushbranch" \in pending
    /\ \E code \in ExitCodes :
        out' = Append(out, IF code = 0 THEN "npm run prepushbranch success"
                                       ELSE "npm run prepushbranch failure")
    /\ pending' = pending \ {"prepushbranch"}
    /\ UNCHANGED <<script, pc, exitCode, tracked, results, pkg, env, options, data, ran, reason>>
    /\ UNCHANGED <<mergeCodes, session>>

-----------------------------------------------------------------------------
(* The pre-push validator with flags: src/hooks/pre-push.js, 425-626 *)

\* the command lines yargs can parse: --cn, --cv, --tagpush <cmd>, --branchpush <cmd>
FlagOptions ==
    [checkpkgname : BOOLEAN, checkpkgversion : BOOLEAN,
     ontagpushexec : {<<>>, <<"npm run publish">>},
     onbranchpushexec : {<<>>, <<"npm run test">>}]

\* checkBranchName: the value the promise chain goes on with
Package_checkBranchName(branchName) ==
    [isTag |-> regTag(branchName),
     isBranch |-> regBranch(branchName),
     isMaster |-> FALSE,
     branchName |-> branchName,
     branchVersion |-> CHOOSE m \in regVersion(branchName) : TRUE]

\* checkBranchName: the condition under which the process exits
Package_branchNameIllegal(branchName) == ~(regTag(branchName) \/ regBranch(branchName))

\* checkPkgName without the test of the checkpkgname option
Package_checkPkgName_unguarded(o, p) ==
    IF p.name # projectName THEN [p EXCEPT !.name = projectName] ELSE p

\* checkPkgName: the manifest after the call
Package_checkPkgName(o, p) ==
    IF ~o.checkpkgname THEN p
    ELSE IF p.name # projectName THEN [p EXCEPT !.name = projectName]
    ELSE p

\* checkPkgVersion: the condition under which the version is rewritten
Package_rewritesVersion(o, p, d) == o.checkpkgversion /\ p.version # d.branchVersion

\* onTagPushedExec and onBranchPushedExec: the conditions under which the
\* command is launched
Package_runsTag(o, d) == o.ontagpushexec # <<>> /\ d.isTag

Package_runsBranch(o, d) == o.onbranchpushexec # <<>> /\ d.isBranch

\* init up to the launch of exec: checkPkgName, then getBranchName
Package_init ==
    /\ script = "flags" /\ pc = "start"
    /\ pkg' = Package_checkPkgName(options, pkg)
    /\ out' = IF pkg' # pkg THEN Append(out, "name rewritten") ELSE out
    /\ pc' = "exec"
    /\ UNCHANGED <<script, exitCode, tracked, results, env, options, data, pending, ran, reason>>
    /\ UNCHANGED <<mergeCodes, session>>

\* the callback of exec('git symbolic-ref --short HEAD')
Package_execCallback ==
    /\ script = "flags" /\ pc = "exec"
    /\ \/ pc' = "catch" /\ reason' = "exec error" /\ UNCHANGED data
       \/ \E stdout \in Stdouts :
            /\ data' = <<[isTag |-> FALSE, isBranch |-> FALSE, isMaster |-> FALSE,
                          branchName |-> Trim(stdout), branchVersion |-> <<>>]>>
            /\ pc' = "checkBranchName"
            /\ UNCHANGED reason
    /\ UNCHANGED <<script, exitCode, out, tracked, results, pkg, env, options, pending, ran>>
    /\ UNCHANGED <<mergeCodes, session>>

\* then(this.checkBranchName)
Package_checkBranchNameStep ==
    /\ script = "flags" /\ pc = "checkBranchName"
    /\ IF Package_branchNameIllegal(data[1].branchName)
         THEN /\ out' = Append(out, "branch name illegal")
              /\ Exit(1)
              /\ UNCHANGED data
         ELSE /\ data' = <<Package_checkBranchName(data[1].branchName)>>
              /\ pc' = "then"
              /\ UNCHANGED <<out, exitCode>>
    /\ UNCHANGED <<script, tracked, results, pkg, env, options, pending, ran, reason>>
    /\ UNCHANGED <<mergeCodes, session>>

\* the handler given to then: checkPkgVersion, onTagPushedExec, onBranchPushedExec
Package_then ==
    /\ script = "flags" /\ pc = "then"
    /\ LET d == data[1] IN
        IF Package_rewritesVersion(options, pkg, d)
        THEN /\ pkg' = [pkg EXCEPT !.version = d.branchVersion]
             /\ out' = Append(out, "version rewritten")
             /\ Exit(0)
             /\ UNCHANGED <<pending, ran>>
        ELSE /\ pending' = (IF Package_runsTag(options, d) THEN {"ontagpushexec"} ELSE {})
                            \cup (IF Package_runsBranch(options, d)
                                  THEN {"onbranchpushexec"} ELSE {})
             /\ ran' = ran
                   \o (IF Package_runsTag(options, d)
                       THEN <<Cmd("ontagpushexec", options.ontagpushexec)>> ELSE <<>>)
                   \o (IF Package_runsBranch(options, d)
                       THEN <<Cmd("onbranchpushexec", options.onbranchpushexec)>> ELSE <<>>)
             /\ pc' = "idle"
             /\ UNCHANGED <<pkg, out, exitCode>>
    /\ UNCHANGED <<script, tracked, results, env, options, data, reason>>
    /\ UNCHANGED <<mergeCodes, session>>

\* the handler given to catch
Package_catch ==
    /\ script = "flags" /\ pc = "catch"
    /\ out' = Append(out, reason)
    /\ pc' = "idle"
    /\ UNCHANGED <<script, exitCode, tracked, results, pkg, env, options, data, pending, ran, reason>>
    /\ UNCHANGED <<mergeCodes, session>>

\* the callbacks of shell.exec(ontagpushexec) and of shell.exec(onbranchpushexec)
Package_onTagPushedCallback ==
    /\ script = "flags" /\ pc = "idle" /\ "ontagpushexec" \in pending
    /\ \E code \in ExitCodes :
        out' = Append(out, IF code = 0 THEN "ontagpushexec success"
                                       ELSE "ontagpushexec failure")
    /\ pending' = pending \ {"ontagpushexec"}
    /\ UNCHANGED <<script, pc, exitCode, tracked, results, pkg, env, options, data, ran, reason>>
    /\ UNCHANGED <<mergeCodes, session>>

Package_onBranchPushedCallback ==
    /\ script = "flags" /\ pc = "idle" /\ "onbranchpushexec" \in pending
    /\ \E code \in ExitCodes :
        out' = Append(out, IF code = 0 THEN "onbranchpushexec success"
                                       ELSE "onbranchpushexec failure")
    /\ pending' = pending \ {"onbranchpushexec"}
    /\ UNCHANGED <<script, pc, exitCode, tracked, results, pkg, env, options, data, ran, reason>>
    /\ UNCHANGED <<mergeCodes, session>>

-----------------------------------------------------------------------------
(* The installer: src/bin/install.js *)

\* Git hook | Npm script
hooksMap ==
    [applypatchmsg |-> "applypatch-msg",
     commitmsg |-> "commit-msg",
     postapplypatch |-> "post-applypatch",
     postcheckout |-> "post-checkout",
     postcommit |-> "post-commit",
     postmerge |-> "post-merge",
     postreceive |-> "post-receive",
     postrewrite |-> "post-rewrite",
     postupdate |-> "post-update",
     preapplypatch |-> "pre-applypatch",
     preautogc |-> "pre-auto-gc",
     precommit |-> "pre-commit",
     prepush |-> "pre-push",
     prerebase |-> "pre-rebase",
     prereceive |-> "pre-receive",
     preparecommitmsg |-> "prepare-commit-msg",
     pushtocheckout |-> "push-to-checkout",
     update |-> "update"]

\* the script names a target manifest may configure before the install
ScriptKeys == {"prepush", "precommit", "update", "test"}

\* the commands a target manifest may hold under a script name: a user's
\* command, the empty string, or the hook's command from an earlier install
OldCommands(k) ==
    {UserCommand, <<>>}
    \cup (IF k \in DOMAIN hooksMap THEN {<<"node ./hooks/", hooksMap[k], ".js">>} ELSE {})

ScriptTables ==
    UNION {{t \in [ks -> UNION {OldCommands(k) : k \in ks}] :
                \A k \in ks : t[k] \in OldCommands(k)} :
           ks \in {x \in SUBSET ScriptKeys : Cardinality(x) <= MaxScripts}}

\* the manifests of a project the hooks are installed into
InstallPkgs ==
    {[exists |-> TRUE, name |-> "other", version |-> v, hasScripts |-> TRUE, scripts |-> t] :
        v \in PkgVersions, t \in ScriptTables}
    \cup {[exists |-> TRUE, name |-> "other", version |-> v, hasScripts |-> FALSE,
           scripts |-> <<>>] : v \in PkgVersions}
    \cup {NoPkg}

\* addNpmScripts chaining the hook after the command the key held
Install_newCommand_appended(key, old) ==
    (IF old # <<>> THEN old \o <<" && ">> ELSE <<>>) \o <<"node ./hooks/", hooksMap[key], ".js">>

\* addNpmScripts: the command written under key, old being the command the key
\* held before (<<>> when it held none)
Install_newCommand(key, old) ==
    <<"node ./hooks/", hooksMap[key], ".js">> \o (IF old # <<>> THEN <<" && ">> \o old ELSE <<>>)

\* addNpmScripts: the manifest written when package.json exists
Install_addNpmScripts(p) ==
    LET scripts == IF p.hasScripts THEN p.scripts ELSE <<>>
    IN  [p EXCEPT
            !.hasScripts = TRUE,
            !.scripts = [k \in DOMAIN scripts \cup DOMAIN hooksMap |->
                            IF k \in DOMAIN hooksMap
                            THEN Install_newCommand(k, IF k \in DOMAIN scripts
                                                       THEN scripts[k] ELSE <<>>)
                            ELSE scripts[k]]]

\* the callback of fsUtils.copy in copyHooks
Install_copyCallback ==
    /\ script = "install" /\ pc = "start"
    /\ \/ /\ out' = Append(out, "Hooks copied!")
          /\ pc' = "addNpmScripts"
          /\ UNCHANGED reason
       \/ /\ reason' = "copy error"
          /\ pc' = "catch"
          /\ UNCHANGED out
    /\ UNCHANGED <<script, exitCode, tracked, results, pkg, env, options, data, pending, ran>>
    /\ UNCHANGED <<mergeCodes, session>>

\* then(addNpmScripts)
Install_addNpmScriptsStep ==
    /\ script = "install" /\ pc = "addNpmScripts"
    /\ IF pkg.exists
         THEN /\ pkg' = Install_addNpmScripts(pkg)
              /\ out' = Append(out, "Npm scripts added!")
              /\ pc' = "then"
              /\ UNCHANGED reason
         ELSE /\ reason' = "Could not find package.json!"
              /\ pc' = "catch"
              /\ UNCHANGED <<pkg, out>>
    /\ UNCHANGED <<script, exitCode, tracked, results, env, options, data, pending, ran>>
    /\ UNCHANGED <<mergeCodes, session>>

\* the handler given to the last then
Install_then ==
    /\ script = "install" /\ pc = "then"
    /\ out' = Append(out, "Hooks install success!")
    /\ pc' = "idle"
    /\ UNCHANGED <<script, exitCode, tracked, results, pkg, env, options, data, pending, ran,
                   reason>>
    /\ UNCHANGED <<mergeCodes, session>>

\* the handler given to catch
Install_catch ==
    /\ script = "install" /\ pc = "catch"
    /\ out' = Append(out, reason)
    /\ pc' = "idle"
    /\ UNCHANGED <<script, exitCode, tracked, results, pkg, env, options, data, pending, ran,
                   reason>>
    /\ UNCHANGED <<mergeCodes, session>>

-----------------------------------------------------------------------------
(* The installer that detects a command it already added:
   src/hooks/pre-push.js, lines 628-730 *)

\* Git hook | Npm script: every entry but prepush is commented out
Dedup_hooksMap == [prepush |-> "pre-push"]

\* 'node ./hooks/' + hooksMap[key] + '.js', cut into pieces so that each '.'
\* is a piece of its own
Dedup_command(key) == <<"node ", ".", "/hooks/", Dedup_hooksMap[key], ".", "js">>

\* the pieces that are one character long
Dedup_chars == {".", "x"}

\* String.prototype.match given a string: the string is compiled as a regular
\* expression, in which '.' stands for any one character, and searched for in s
Dedup_match(s, command) ==
    \E i \in 1..(Len(s) - Len(command) + 1) :
        \A j \in 1..Len(command) :
            IF command[j] = "." THEN s[i + j - 1] \in Dedup_chars
                                ELSE s[i + j - 1] = command[j]

\* the commands the target manifest may hold under prepush: a user's command,
\* the empty string, the hook's command alone or after a user's command (what
\* an earlier install wrote), and a command that differs from the hook's
\* command in the two characters written '.'
Dedup_oldCommands ==
    {UserCommand, <<>>, Dedup_command("prepush"),
     UserCommand \o <<" && ">> \o Dedup_command("prepush"),
     <<"node ", "x", "/hooks/", "pre-push", "x", "js">>}

Dedup_scriptTables ==
    UNION {{t \in [ks -> Dedup_oldCommands \cup {UserCommand}] :
                \A k \in ks : t[k] \in (IF k = "prepush" THEN Dedup_oldCommands
                                                        ELSE {UserCommand})} :
           ks \in SUBSET {"prepush", "test"}}

\* the manifests of a project the hooks are installed into
Dedup_pkgs ==
    {[exists |-> TRUE, name |-> "other", version |-> v, hasScripts |-> TRUE, scripts |-> t] :
        v \in PkgVersions, t \in Dedup_scriptTables}
    \cup {[exists |-> TRUE, name |-> "other", version |-> v, hasScripts |-> FALSE,
           scripts |-> <<>>] : v \in PkgVersions}
    \cup {NoPkg}

\* addNpmScripts: the object the local variable scripts refers to
Dedup_scripts(p) == IF p.hasScripts THEN p.scripts ELSE <<>>

\* addNpmScripts: the value of scripts[key] after the loop
Dedup_newCommand(key, scripts) ==
    LET command == Dedup_command(key) IN
    IF key \notin DOMAIN scripts \/ scripts[key] = <<>>
      THEN command
      ELSE IF ~Dedup_match(scripts[key], command)
             THEN scripts[key] \o <<" && ">> \o command
             ELSE scripts[key]

\* addNpmScripts: the errors collected by the loop
Dedup_errors(scripts) ==
    {key \in DOMAIN Dedup_hooksMap :
        /\ key \in DOMAIN scripts /\ scripts[key] # <<>>
        /\ Dedup_match(scripts[key], Dedup_command(key))}

\* addNpmScripts: the manifest written when package.json exists; the loop
\* assigns to the local scripts, which is pkg.scripts only when the manifest
\* had that field
Dedup_addNpmScripts(p) ==
    IF p.hasScripts
      THEN [p EXCEPT !.scripts = [k \in DOMAIN p.scripts \cup DOMAIN Dedup_hooksMap |->
                                     IF k \in DOMAIN Dedup_hooksMap
                                     THEN Dedup_newCommand(k, Dedup_scripts(p))
                                     ELSE p.scripts[k]]]
      ELSE p

\* the callback of fsUtils.copy in copyHooks
Dedup_copyCallback ==
    /\ script = "dedup" /\ pc = "start"
    /\ \/ /\ out' = Append(out, "Hooks copied!")
          /\ pc' = "addNpmScripts"
          /\ UNCHANGED reason
       \/ /\ reason' = "copy error"
          /\ pc' = "catch"
          /\ UNCHANGED out
    /\ UNCHANGED <<script, exitCode, tracked, results, pkg, env, options, data, pending, ran>>
    /\ UNCHANGED <<mergeCodes, session>>

\* then(addNpmScripts)
Dedup_addNpmScriptsStep ==
    /\ script = "dedup" /\ pc = "addNpmScripts"
    /\ IF pkg.exists
         THEN /\ pkg' = Dedup_addNpmScripts(pkg)
              /\ out' = Append(out, "Npm scripts added!")
              /\ IF Dedup_errors(Dedup_scripts(pkg)) # {}
                   THEN reason' = "Script prepush is already exists!" /\ pc' = "catch"
                   ELSE pc' = "then" /\ UNCHANGED reason
         ELSE /\ reason' = "Could not find package.json!"
              /\ pc' = "catch"
              /\ UNCHANGED <<pkg, out>>
    /\ UNCHANGED <<script, exitCode, tracked, results, env, options, data, pending, ran>>
    /\ UNCHANGED <<mergeCodes, session>>

\* the handler given to the last then
Dedup_then ==
    /\ script = "dedup" /\ pc = "then"
    /\ out' = Append(out, "Hooks install success!")
    /\ pc' = "idle"
    /\ UNCHANGED <<script, exitCode, tracked, results, pkg, env, options, data, pending, ran,
                   reason>>
    /\ UNCHANGED <<mergeCodes, session>>

\* the handler given to catch
Dedup_catch ==
    /\ script = "dedup" /\ pc = "catch"
    /\ out' = Append(out, reason)
    /\ pc' = "idle"
    /\ UNCHANGED <<script, exitCode, tracked, results, pkg, env, options, data, pending, ran,
                   reason>>
    /\ UNCHANGED <<mergeCodes, session>>

\* nothing is left to run: node ends the process with code 0
ProcessEnd ==
    /\ pc = "idle" /\ pending = {}
    /\ Exit(0)
    /\ UNCHANGED <<script, out, tracked, results, pkg, env, options, data, pending, ran, reason>>
    /\ UNCHANGED <<mergeCodes, session>>

-----------------------------------------------------------------------------

InitPreCommit ==
    /\ script = "precommit"
    /\ tracked \in [Files -> FileTexts]
    /\ pkg = NoPkg /\ env = NpmEnv(NoPkg) /\ options = NoOptions

InitPrePush ==
    /\ script = "prepush"
    /\ tracked = [f \in Files |-> <<>>]
    /\ pkg \in PrePushPkgs /\ env = NpmEnv(pkg) /\ options = NoOptions

InitPart000 ==
    /\ script = "part000"
    /\ tracked = [f \in Files |-> <<>>]
    /\ pkg \in PrePushPkgs /\ env = NpmEnv(pkg) /\ options = NoOptions

InitPackage ==
    /\ script = "flags"
    /\ tracked = [f \in Files |-> <<>>]
    /\ pkg \in {p \in PrePushPkgs : DOMAIN p.scripts = {}}
    /\ env = NpmEnv(pkg) /\ options \in FlagOptions

InitInstall ==
    /\ script = "install"
    /\ tracked = [f \in Files |-> <<>>]
    /\ pkg \in InstallPkgs /\ env = NpmEnv(NoPkg) /\ options = NoOptions

InitDedup ==
    /\ script = "dedup"
    /\ tracked = [f \in Files |-> <<>>]
    /\ pkg \in Dedup_pkgs /\ env = NpmEnv(NoPkg) /\ options = NoOptions

Init ==
    /\ pc = "start" /\ exitCode = Running /\ out = <<>>
    /\ results = <<>>
    /\ data = <<>> /\ pending = {} /\ ran = <<>> /\ reason = "" /\ mergeCodes = <<>>
    /\ fixed = <<>> /\ runs = 1 /\ failed = 0
    /\ \/ InitPreCommit
       \/ InitPrePush
       \/ InitPart000
       \/ InitPackage
       \/ InitInstall
       \/ InitDedup

Next ==
    \/ PreCommit_try
    \/ PreCommit_check
    \/ PrePush_init
    \/ PrePush_execCallback
    \/ PrePush_then
    \/ PrePush_catch
    \/ PrePush_prePushTagCallback
    \/ PrePush_prePushBranchCallback
    \/ PrePush_autoMergeCallback
    \/ Part000_init
    \/ Part000_execCallback
    \/ Part000_checkBranchNameStep
    \/ Part000_then
    \/ Part000_catch
    \/ Part000_prePushTagCallback
    \/ Part000_prePushBranchCallback
    \/ Package_init
    \/ Package_execCallback
    \/ Package_checkBranchNameStep
    \/ Package_then
    \/ Package_catch
    \/ Package_onTagPushedCallback
    \/ Package_onBranchPushedCallback
    \/ Install_copyCallback
    \/ Install_addNpmScriptsStep
    \/ Install_then
    \/ Install_catch
    \/ Dedup_copyCallback
    \/ Dedup_addNpmScriptsStep
    \/ Dedup_then
    \/ Dedup_catch
    \/ ProcessEnd

Spec == Init /\ [][Next]_vars

\* a session of pushes from one tag or version branch: the pre-push hook with
\* master support is run again and again
FixedBranches == {<<n>> : n \in {b \in BranchNames : regTag(b) \/ regBranch(b)}}

InitRerun ==
    /\ pc = "start" /\ exitCode = Running /\ out = <<>>
    /\ results = <<>>
    /\ data = <<>> /\ pending = {} /\ ran = <<>> /\ reason = "" /\ mergeCodes = <<>>
    /\ InitPrePush
    /\ fixed \in FixedBranches /\ runs = 1 /\ failed = 0

NextRerun ==
    \/ PrePush_init
    \/ PrePush_execCallback
    \/ PrePush_then
    \/ PrePush_catch
    \/ PrePush_prePushTagCallback
    \/ PrePush_prePushBranchCallback
    \/ PrePush_autoMergeCallback
    \/ ProcessEnd
    \/ PrePush_rerun

SpecRerun == InitRerun /\ [][NextRerun]_vars

-----------------------------------------------------------------------------
(* Properties *)

PrePushScripts == {"prepush", "part000", "flags"}

BranchRead == data # <<>>

\* the version of a branch name: the match of regVersion, <<>> when there is none
DerivedVersion(branchName) ==
    IF regVersion(branchName) # {} THEN CHOOSE m \in regVersion(branchName) : TRUE ELSE <<>>

HasConflictStart(files) ==
    \E f \in DOMAIN files : \E n \in 1..Len(files[f]) :
        StartsWith(files[f][n], Rep("<", 7) \o <<" ">>)

\* C1: when a tracked file holds a line that starts with '<<<<<<< ', the
\* pre-commit check exits with code 1 and prints the matching files.
C1_ConflictExitsOne ==
    (script = "precommit" /\ Exited /\ HasConflictStart(tracked))
        => (exitCode = 1 /\ Printed("conflict found, conflicting files:") /\ Printed("results"))

\* C2: when git grep finds no conflict marker in the tracked files, the
\* pre-commit check prints the success message and exits with code 0.
C2_NoConflictExitsZero ==
    (script = "precommit" /\ Exited /\ gitGrep(tracked) = {})
        => (exitCode = 0 /\ Printed("no conflict, waiting for commit"))

C2_Witness ==
    /\ script = "precommit" /\ Exited /\ gitGrep(tracked) = {}
    /\ \E f \in Files : tracked[f] # <<>>
    /\ exitCode = 0

\* C3: for every branch name that matches ^v\d+\.\d+\.\d+$, the branchVersion
\* of getBranchData (validator with master support) and of checkBranchName
\* (flags variant) is the branch name without its leading 'v'.
C3_TagVersionIsSuffix ==
    (script \in {"prepush", "flags"} /\ BranchRead /\ data[1].isTag)
        => data[1].branchVersion = Tail(data[1].branchName)

\* C4: a run of the validator with master support whose git query returned a
\* branch name that matches neither the tag pattern, nor the version-branch
\* pattern, nor 'master' exits with code 1.
C4_IllegalBranchExitsOne ==
    (/\ script = "prepush" /\ Exited /\ BranchRead
     /\ ~regTag(data[1].branchName)
     /\ ~regBranch(data[1].branchName)
     /\ data[1].branchName # Master)
        => exitCode = 1

C4_Witness ==
    /\ script = "prepush" /\ Exited /\ BranchRead
    /\ data[1].branchName = <<"x">> \o pkg.version
    /\ env.npm_package_name = projectName
    /\ exitCode = 1 /\ Printed("branch name illegal")

C5_Step ==
    script \in {"prepush", "part000"} =>
        /\ (/\ Exited' /\ ~Exited /\ BranchRead
            /\ pkg.name = projectName
            /\ regTag(data[1].branchName) \/ regBranch(data[1].branchName)
            /\ DerivedVersion(data[1].branchName) # pkg.version)
               => pkg'.version = DerivedVersion(data[1].branchName)
        /\ pkg'.version # pkg.version
               => (BranchRead /\ pkg'.version = DerivedVersion(data[1].branchName))

\* C5: in the validators that read the npm environment, a run that ends with
\* the manifest name equal to the project directory name, on a tag or version
\* branch whose derived version differs from the manifest's version, leaves
\* package.json with the derived version as its version; and no step changes
\* the version field to anything but the version derived from the branch name.
C5_VersionRewrittenToBranchVersion == [][C5_Step]_vars

C5_Witness ==
    /\ script = "prepush" /\ Exited /\ BranchRead
    /\ data[1].branchName = <<"v", "1", ".", "2", ".", "1">>
    /\ env.npm_package_name = projectName
    /\ env.npm_package_version = <<"1", ".", "2", ".", "1", "0">>
    /\ pkg.version = <<"1", ".", "2", ".", "1">>
    /\ Printed("npm_package_version rewritten")

\* C6: a run of the validator with master support in which a shell command
\* failed (the git query, npm run prepushtag, npm run prepushbranch or the
\* merge commands) prints a message and exits with a non-zero code.
C6_FailedCommandExitsNonZero ==
    (/\ script = "prepush" /\ Exited
     /\ \/ reason = "exec error"
        \/ Printed("npm run prepushtag failure")
        \/ Printed("npm run prepushbranch failure")
        \/ Printed("merge into master failed"))
        => (exitCode # 0 /\ out # <<>>)

NameRewritten == Printed("npm_package_name rewritten") \/ Printed("name rewritten")

VersionRewritten == Printed("npm_package_version rewritten") \/ Printed("version rewritten")

\* C7: in every pre-push validator, a run that rewrote the manifest's name or
\* version ends with exit code 1, so exit code 0 means no validation failed.
C7_ValidationFailureExitsOne ==
    (script \in PrePushScripts /\ Exited /\ (NameRewritten \/ VersionRewritten))
        => exitCode = 1

\* C8: an install into a project without package.json prints 'Could not find
\* package.json!', writes no manifest, never prints 'Hooks install success!'
\* and exits with a non-zero code.
C8_MissingManifestExitsNonZero ==
    (script = "install" /\ Exited /\ Printed("Hooks copied!") /\ ~pkg.exists)
        => /\ Printed("Could not find package.json!")
           /\ ~Printed("Hooks install success!")
           /\ exitCode # 0

C9_Step ==
    (script = "install" /\ pc = "addNpmScripts" /\ pkg.exists) =>
        /\ pkg'.exists /\ pkg'.name = pkg.name /\ pkg'.version = pkg.version
        /\ pkg'.hasScripts
        /\ \A k \in DOMAIN hooksMap :
            /\ k \in DOMAIN pkg'.scripts
            /\ StartsWith(pkg'.scripts[k], <<"node ./hooks/", hooksMap[k], ".js">>)
            /\ ScriptOf(pkg, k) # <<>> =>
                 pkg'.scripts[k] =
                    <<"node ./hooks/", hooksMap[k], ".js", " && ">> \o ScriptOf(pkg, k)
        /\ \A k \in (IF pkg.hasScripts THEN DOMAIN pkg.scripts ELSE {}) \ DOMAIN hooksMap :
            k \in DOMAIN pkg'.scripts /\ pkg'.scripts[k] = pkg.scripts[k]

\* C9: addNpmScripts of src/bin/install.js leaves, for every key of hooksMap,
\* a scripts entry that begins with 'node ./hooks/<hook-name>.js' and, when
\* the key held a command, is that hook command, ' && ' and the old command;
\* the manifest's other fields are unchanged.
C9_HookCommandPrepended == [][C9_Step]_vars

C9_Witness ==
    /\ script = "install" /\ pc = "then"
    /\ pkg.scripts["prepush"] = <<"node ./hooks/", "pre-push", ".js", " && ">> \o UserCommand
    /\ pkg.scripts["update"] = <<"node ./hooks/", "update", ".js">>
    /\ Printed("Npm scripts added!")

C10_Step ==
    script = "flags" =>
        /\ ~options.checkpkgname => pkg'.name = pkg.name
        /\ ~options.checkpkgversion => pkg'.version = pkg.version
        /\ \A i \in (Len(ran) + 1)..Len(ran') :
            /\ ran'[i].cmd = "ontagpushexec" => options.ontagpushexec # <<>>
            /\ ran'[i].cmd = "onbranchpushexec" => options.onbranchpushexec # <<>>
            /\ ran'[i].cmd \in {"ontagpushexec", "onbranchpushexec"}

\* C10: in the flags variant, no step of a run without --cn/--checkpkgname
\* changes the manifest's name, no step of a run without
\* --cv/--checkpkgversion changes its version, and a step launches the tag
\* (branch) command only when --tagpush (--branchpush) was supplied.
C10_FlagsGuardEffects == [][C10_Step]_vars

C10_Witness ==
    /\ script = "flags" /\ Exited /\ BranchRead
    /\ ~options.checkpkgname /\ pkg.name # projectName
    /\ ~options.checkpkgversion /\ data[1].isTag /\ pkg.version # data[1].branchVersion
    /\ options.ontagpushexec # <<>> /\ options.onbranchpushexec = <<>>
    /\ Len(ran) = 1 /\ ran[1].cmd = "ontagpushexec"

-----------------------------------------------------------------------------
(* Properties of the user commands, the merge and repeated runs *)

Launched(c) == \E i \in 1..Len(ran) : ran[i].cmd = c

\* the name, branch-name and version checks of this run have passed
ChecksPassed ==
    /\ BranchRead
    /\ env.npm_package_name = projectName
    /\ ~NameRewritten /\ ~VersionRewritten /\ ~Printed("branch name illegal")
    /\ pkg.name = env.npm_package_name /\ pkg.version = env.npm_package_version
    /\ env.npm_package_version = DerivedVersion(data[1].branchName)

\* C11: in the validator with master support and in its older copy, 'npm run
\* prepushtag' is launched only on a branch that matches the tag pattern, with
\* a prepushtag script configured and the name, branch-name and version checks
\* of the run passed; 'npm run prepushbranch' likewise for the version-branch
\* pattern; a run launches at most one of the two, and none on master.
C11_UserCommandGuards ==
    script \in {"prepush", "part000"} =>
        /\ Launched("npm run prepushtag") =>
             /\ ChecksPassed
             /\ regTag(data[1].branchName)
             /\ env.npm_package_scripts_prepushtag # <<>>
        /\ Launched("npm run prepushbranch") =>
             /\ ChecksPassed
             /\ regBranch(data[1].branchName)
             /\ env.npm_package_scripts_prepushbranch # <<>>
        /\ Cardinality({i \in 1..Len(ran) :
                ran[i].cmd \in {"npm run prepushtag", "npm run prepushbranch"}}) <= 1
        /\ (BranchRead /\ data[1].branchName = Master) => ran = <<>>

C11_Witness ==
    /\ script = "prepush" /\ Exited
    /\ Launched("npm run prepushbranch")
    /\ pkg.scripts = [k \in {"prepushtag", "prepushbranch"} |-> UserCommand]
    /\ data[1].branchName = <<"d">> \o pkg.version

MergeStarted == Printed("merge into master starts")

\* the commands the shell ran after the user command of the run
MergeSteps == IF ran = <<>> THEN <<>> ELSE Tail(ran)

MergeOrder ==
    <<"git checkout master", "git pull origin master", "git merge ",
      "git push origin master", "git push origin --delete d">>

\* m comes before n in the console output
PrintedBefore(m, n) == \E i, j \in 1..Len(out) : i < j /\ out[i] = m /\ out[j] = n

\* C12: in the validator with master support the merge into master starts only
\* after 'npm run prepushtag' ended with exit code 0 on a tag branch (so not
\* on a version branch or master, not without a prepushtag script, not after
\* a failed prepushtag); its commands run in the order checkout master, pull
\* origin master, merge the tag branch, push origin master, delete the remote
\* development branch, and each runs only when all before it exited with 0.
C12_MergeAfterTagSuccess ==
    script = "prepush" =>
        /\ (MergeStarted \/ "automerge" \in pending \/ mergeCodes # <<>>) =>
             /\ PrintedBefore("npm run prepushtag success", "merge into master starts")
             /\ ~Printed("npm run prepushtag failure")
             /\ ran # <<>> /\ ran[1].cmd = "npm run prepushtag"
             /\ regTag(data[1].branchName)
             /\ env.npm_package_scripts_prepushtag # <<>>
        /\ MergeSteps # <<>> => (MergeStarted /\ ran[1].cmd = "npm run prepushtag")
        /\ Len(MergeSteps) <= Len(MergeOrder) /\ Len(mergeCodes) = Len(MergeSteps)
        /\ \A i \in 1..Len(MergeSteps) :
             /\ MergeSteps[i].cmd = MergeOrder[i]
             /\ MergeSteps[i].cmd = "git merge " => MergeSteps[i].arg = data[1].branchName
             /\ \A j \in 1..(i - 1) : mergeCodes[j] = 0

C12_Witness ==
    /\ script = "prepush" /\ Exited
    /\ mergeCodes = <<0, 0, 1>>
    /\ Len(ran) = 4 /\ ran[4] = Cmd("git merge ", data[1].branchName)
    /\ Printed("merge into master failed")

\* C13: on a tag branch v<major>.<minor>.<patch>, the remote branch the merge
\* deletes is d<major>.<minor>.<patch>, with the numbers of the tag.
C13_DeletesMatchingDevBranch ==
    (script = "prepush" /\ BranchRead /\ regTag(data[1].branchName)) =>
        \A i \in 1..Len(ran) :
            ran[i].cmd = "git push origin --delete d" =>
                <<"d">> \o ran[i].arg = <<"d">> \o Tail(data[1].branchName)

\* C14: a run of the validator with master support that starts with a package
\* name other than the project directory name rewrites the name field, and
\* nothing else of the manifest, to the directory name and exits with code 1
\* in its first step: the branch is not queried, the branch name is not
\* checked, and no user command and no merge is started.
C14_NameFixedFirst ==
    (script = "prepush" /\ env.npm_package_name # projectName /\ pc # "start") =>
        /\ Exited /\ exitCode = 1
        /\ pkg = [NoPkg EXCEPT !.exists = TRUE, !.hasScripts = TRUE,
                               !.name = projectName,
                               !.version = env.npm_package_version,
                               !.scripts = pkg.scripts]
        /\ \A k \in {"prepushtag", "prepushbranch"} :
             ScriptOf(pkg, k) = IF k = "prepushtag"
                                THEN env.npm_package_scripts_prepushtag
                                ELSE env.npm_package_scripts_prepushbranch
        /\ out = <<"npm_package_name rewritten">>
        /\ data = <<>> /\ reason = ""
        /\ ran = <<>> /\ pending = {} /\ mergeCodes = <<>>

C14_Witness ==
    /\ script = "prepush" /\ Exited /\ exitCode = 1
    /\ env.npm_package_name = "other" /\ pkg.name = projectName
    /\ pkg.version = env.npm_package_version
    /\ DOMAIN pkg.scripts = {"prepushtag", "prepushbranch"}
    /\ data = <<>>

\* the number of places of s at which the pieces of c occur
Occurrences(s, c) ==
    Cardinality({i \in 1..(Len(s) - Len(c) + 1) : SubSeq(s, i, i + Len(c) - 1) = c})

\* C15: once the duplicate-detecting installer has written an existing
\* manifest, the manifest has a scripts.prepush entry in which
\* 'node ./hooks/pre-push.js' occurs exactly once, whatever the manifest held
\* before: no scripts field, a user's command, or the command of an earlier
\* install.
C15_HookCommandOnce ==
    (script = "dedup" /\ Printed("Npm scripts added!")) =>
        /\ pkg.hasScripts /\ "prepush" \in DOMAIN pkg.scripts
        /\ Occurrences(pkg.scripts.prepush, Dedup_command("prepush")) = 1

\* the failed runs of the session, the current one included once it has ended
FailedRuns == failed + (IF Exited /\ exitCode = 1 THEN 1 ELSE 0)

\* the run started with the manifest's name and version as the checks want them
StartedConsistent ==
    /\ env.npm_package_name = projectName
    /\ env.npm_package_version = DerivedVersion(fixed[1])

\* C16: when the validator with master support is run again and again on one
\* valid tag or version branch, each run starting with the environment npm
\* exports from the manifest as it is then: at most two runs end in a
\* validation failure; once two have, the manifest's name is the directory name
\* and its version the version derived from the branch name, and every run
\* after them starts from such a manifest; and a run that starts from such a
\* manifest leaves the manifest as it is and fails no validation.
C16_AtMostTwoFailedRuns ==
    /\ FailedRuns <= 2
    /\ FailedRuns = 2 =>
         pkg.name = projectName /\ pkg.version = DerivedVersion(fixed[1])
    /\ failed = 2 => StartedConsistent
    /\ StartedConsistent =>
         /\ pkg.name = env.npm_package_name /\ pkg.version = env.npm_package_version
         /\ env = NpmEnv(pkg)
         /\ exitCode # 1
         /\ ~NameRewritten /\ ~VersionRewritten /\ ~Printed("branch name illegal")

C16_Witness ==
    /\ failed = 2 /\ runs = 4
    /\ Exited /\ exitCode = 0 /\ BranchRead
    /\ fixed = <<<<"v", "1", ".", "2", ".", "1", "0">>>>
    /\ pkg.name = projectName /\ pkg.version = <<"1", ".", "2", ".", "1">>
    /\ Len(mergeCodes) = 5

====
